---- MODULE Spec2Model ----
(***************************************************************************)
(* Model of the embroidery_tools container converter.                      *)
(*                                                                         *)
(*   read.py   (exporter): pattern -> binary container file                *)
(*   write.py  (importer): binary container file -> pattern -> library     *)
(*                                                                         *)
(* Bytes are integers 0..255, text is a sequence of code points, a file is *)
(* a sequence of bytes.  Python values are tagged records [t, v].          *)
(***************************************************************************)
EXTENDS Integers, Sequences, FiniteSets, TLC

(***************************************************************************)
(* Text literals.  Ascii[i] is the character with code point 31 + i (the   *)
(* grave accent, code point 96, is spelled out).                           *)
(***************************************************************************)
Ascii ==
  <<" ", "!", "\"", "#", "$", "%", "&", "'", "(", ")", "*", "+", ",", "-", ".", "/",
    "0", "1", "2", "3", "4", "5", "6", "7", "8", "9", ":", ";", "<", "=", ">", "?",
    "@", "A", "B", "C", "D", "E", "F", "G", "H", "I", "J", "K", "L", "M", "N", "O",
    "P", "Q", "R", "S", "T", "U", "V", "W", "X", "Y", "Z", "[", "\\", "]", "^", "_",
    "grave", "a", "b", "c", "d", "e", "f", "g", "h", "i", "j", "k", "l", "m", "n", "o",
    "p", "q", "r", "s", "t", "u", "v", "w", "x", "y", "z", "{", "|", "}", "~">>

Ord(c) == 31 + (CHOOSE i \in 1..Len(Ascii) : Ascii[i] = c)

\* The text whose characters are the one-character strings of cs.
Text(cs) == [i \in 1..Len(cs) |-> Ord(cs[i])]

(***************************************************************************)
(* Python values: None, bool, int, float (kept as its literal), str, list, *)
(* dict (a sequence of [k, val] pairs in insertion order, keys unique).    *)
(***************************************************************************)
None == [t |-> "None", v |-> <<>>]
PyBool(b) == [t |-> "bool", v |-> <<IF b THEN 1 ELSE 0>>]
PyInt(n) == [t |-> "int", v |-> <<n>>]
PyFloat(lexeme) == [t |-> "float", v |-> lexeme]
PyStr(s) == [t |-> "str", v |-> s]
PyList(items) == [t |-> "list", v |-> items]
PyDict(pairs) == [t |-> "dict", v |-> pairs]

\* dict.get(key, default)
DictGet(d, key, default) ==
  IF \E i \in 1..Len(d.v) : d.v[i].k = key
  THEN d.v[CHOOSE i \in 1..Len(d.v) : d.v[i].k = key].val
  ELSE default

\* d[key] = val : a new key goes last, an old key keeps its place.
DictSet(pairs, key, val) ==
  IF \E i \in 1..Len(pairs) : pairs[i].k = key
  THEN [i \in 1..Len(pairs) |->
          IF pairs[i].k = key THEN [k |-> key, val |-> val] ELSE pairs[i]]
  ELSE Append(pairs, [k |-> key, val |-> val])

(***************************************************************************)
(* The seven keys of a thread record, in the order thread_to_dict writes   *)
(* them.                                                                   *)
(***************************************************************************)
K_hex_color == Text(<<"h","e","x","_","c","o","l","o","r">>)
K_description == Text(<<"d","e","s","c","r","i","p","t","i","o","n">>)
K_catalog_number == Text(<<"c","a","t","a","l","o","g","_","n","u","m","b","e","r">>)
K_details == Text(<<"d","e","t","a","i","l","s">>)
K_brand == Text(<<"b","r","a","n","d">>)
K_chart == Text(<<"c","h","a","r","t">>)
K_weight == Text(<<"w","e","i","g","h","t">>)

\* thread_to_dict leaving out the attributes that are None.
thread_to_dict_sparse(thread) ==
  LET Present(p) == p.val.t # "None"
  IN PyDict(SelectSeq(<< [k |-> K_hex_color, val |-> thread.color],
                         [k |-> K_description, val |-> thread.description],
                         [k |-> K_catalog_number, val |-> thread.catalog_number],
                         [k |-> K_details, val |-> thread.details],
                         [k |-> K_brand, val |-> thread.brand],
                         [k |-> K_chart, val |-> thread.chart],
                         [k |-> K_weight, val |-> thread.weight] >>, Present))

\* read.py thread_to_dict: EmbThread -> dict, all seven keys always present.
thread_to_dict(thread) ==
  PyDict(<< [k |-> K_hex_color, val |-> thread.color],
            [k |-> K_description, val |-> thread.description],
            [k |-> K_catalog_number, val |-> thread.catalog_number],
            [k |-> K_details, val |-> thread.details],
            [k |-> K_brand, val |-> thread.brand],
            [k |-> K_chart, val |-> thread.chart],
            [k |-> K_weight, val |-> thread.weight] >>)

\* write.py dict_to_thread with a missing key read as a fixed default of
\* the empty string instead of None.
dict_to_thread_emptydefault(thread_dict) ==
  [ color |-> DictGet(thread_dict, K_hex_color, PyStr(<<>>)),
    description |-> DictGet(thread_dict, K_description, PyStr(<<>>)),
    catalog_number |-> DictGet(thread_dict, K_catalog_number, PyStr(<<>>)),
    details |-> DictGet(thread_dict, K_details, PyStr(<<>>)),
    brand |-> DictGet(thread_dict, K_brand, PyStr(<<>>)),
    chart |-> DictGet(thread_dict, K_chart, PyStr(<<>>)),
    weight |-> DictGet(thread_dict, K_weight, PyStr(<<>>)) ]

\* write.py dict_to_thread: dict -> EmbThread, a missing key gives None.
dict_to_thread(thread_dict) ==
  [ color |-> DictGet(thread_dict, K_hex_color, None),
    description |-> DictGet(thread_dict, K_description, None),
    catalog_number |-> DictGet(thread_dict, K_catalog_number, None),
    details |-> DictGet(thread_dict, K_details, None),
    brand |-> DictGet(thread_dict, K_brand, None),
    chart |-> DictGet(thread_dict, K_chart, None),
    weight |-> DictGet(thread_dict, K_weight, None) ]

(***************************************************************************)
(* json.dumps with its defaults: ensure_ascii, separators ", " and ": ".   *)
(***************************************************************************)
RECURSIVE Digits(_)
Digits(n) == IF n < 10 THEN <<48 + n>> ELSE Digits(n \div 10) \o <<48 + (n % 10)>>

IntText(n) == IF n < 0 THEN <<45>> \o Digits(0 - n) ELSE Digits(n)

HexDigit(d) == IF d < 10 THEN 48 + d ELSE 87 + d

\* \uXXXX
UEscape(n) ==
  <<92, 117, HexDigit((n \div 4096) % 16), HexDigit((n \div 256) % 16),
    HexDigit((n \div 16) % 16), HexDigit(n % 16)>>

\* The escaping with the quote and the backslash left as they are.
EscapeChar_raw(c) ==
  CASE c >= 32 /\ c <= 126 -> <<c>>
    [] c >= 65536 ->
         UEscape(55296 + (((c - 65536) \div 1024) % 1024))
           \o UEscape(56320 + ((c - 65536) % 1024))
    [] OTHER -> UEscape(c)

\* json.encoder.py_encode_basestring_ascii, one character.
EscapeChar(c) ==
  CASE c = 34 -> <<92, 34>>
    [] c = 92 -> <<92, 92>>
    [] c = 10 -> <<92, 110>>
    [] c = 13 -> <<92, 114>>
    [] c = 9 -> <<92, 116>>
    [] c = 8 -> <<92, 98>>
    [] c = 12 -> <<92, 102>>
    [] c >= 32 /\ c <= 126 -> <<c>>
    [] c >= 65536 ->
         UEscape(55296 + (((c - 65536) \div 1024) % 1024))
           \o UEscape(56320 + ((c - 65536) % 1024))
    [] OTHER -> UEscape(c)

RECURSIVE EscapeText(_)
EscapeText(s) ==
  IF s = <<>> THEN <<>> ELSE EscapeChar(Head(s)) \o EscapeText(Tail(s))

DumpsStr(s) == <<34>> \o EscapeText(s) \o <<34>>

RECURSIVE Dumps(_), DumpsItems(_), DumpsPairs(_)
DumpsItems(items) ==
  IF items = <<>> THEN <<>>
  ELSE Dumps(Head(items))
         \o (IF Len(items) > 1 THEN <<44, 32>> ELSE <<>>)
         \o DumpsItems(Tail(items))

DumpsPairs(pairs) ==
  IF pairs = <<>> THEN <<>>
  ELSE DumpsStr(Head(pairs).k) \o <<58, 32>> \o Dumps(Head(pairs).val)
         \o (IF Len(pairs) > 1 THEN <<44, 32>> ELSE <<>>)
         \o DumpsPairs(Tail(pairs))

Dumps(x) ==
  CASE x.t = "None" -> Text(<<"n","u","l","l">>)
    [] x.t = "bool" -> IF x.v[1] = 1 THEN Text(<<"t","r","u","e">>)
                                     ELSE Text(<<"f","a","l","s","e">>)
    [] x.t = "int" -> IntText(x.v[1])
    [] x.t = "float" -> x.v
    [] x.t = "str" -> DumpsStr(x.v)
    [] x.t = "list" -> <<91>> \o DumpsItems(x.v) \o <<93>>
    [] x.t = "dict" -> <<123>> \o DumpsPairs(x.v) \o <<125>>

(***************************************************************************)
(* json.loads with its defaults (json.decoder / json.scanner).  A parse    *)
(* result is [ok, val, end]: end is the index after the value.  ok = FALSE *)
(* is json.JSONDecodeError.                                                *)
(***************************************************************************)
Ok(val, end) == [ok |-> TRUE, val |-> val, end |-> end]
Fail(end) == [ok |-> FALSE, val |-> None, end |-> end]

IsWs(c) == c \in {32, 9, 10, 13}
IsDigit(c) == c >= 48 /\ c <= 57

\* s[i:i+1], 0 for the empty slice.
At(s, i) == IF i >= 1 /\ i <= Len(s) THEN s[i] ELSE 0

StartsWith(s, i, lit) ==
  i + Len(lit) - 1 <= Len(s) /\ SubSeq(s, i, i + Len(lit) - 1) = lit

RECURSIVE SkipWs(_, _)
SkipWs(s, i) == IF IsWs(At(s, i)) THEN SkipWs(s, i + 1) ELSE i

RECURSIVE DigitsEnd(_, _)
DigitsEnd(s, i) == IF IsDigit(At(s, i)) THEN DigitsEnd(s, i + 1) ELSE i

RECURSIVE DigitsVal(_, _, _, _)
DigitsVal(s, i, end, acc) ==
  IF i >= end THEN acc ELSE DigitsVal(s, i + 1, end, 10 * acc + (s[i] - 48))

HexVal(c) ==
  CASE c >= 48 /\ c <= 57 -> c - 48
    [] c >= 97 /\ c <= 102 -> c - 87
    [] c >= 65 /\ c <= 70 -> c - 55
    [] OTHER -> 0 - 1

\* The value of the four hex digits at s[i..i+3], -1 when they are not.
Hex4Val(s, i) ==
  IF i + 3 <= Len(s) /\ \A j \in i..(i + 3) : HexVal(s[j]) >= 0
  THEN 4096 * HexVal(s[i]) + 256 * HexVal(s[i + 1]) + 16 * HexVal(s[i + 2])
         + HexVal(s[i + 3])
  ELSE 0 - 1

IsSimpleEscape(c) == c \in {34, 92, 47, 98, 102, 110, 114, 116}
Unescape(c) ==
  CASE c = 98 -> 8 [] c = 102 -> 12 [] c = 110 -> 10 [] c = 114 -> 13
    [] c = 116 -> 9 [] OTHER -> c

\* scanstring(s, i, strict = True): i is the index after the opening quote.
RECURSIVE ScanString(_, _, _)
ScanString(s, i, acc) ==
  LET c == At(s, i) IN
  IF i > Len(s) THEN Fail(i)
  ELSE IF c = 34 THEN Ok(acc, i + 1)
  ELSE IF c = 92 THEN
    LET e == At(s, i + 1) IN
    IF i + 1 > Len(s) THEN Fail(i)
    ELSE IF e = 117 THEN
      LET u == Hex4Val(s, i + 2)
          u2 == IF StartsWith(s, i + 6, <<92, 117>>) THEN Hex4Val(s, i + 8)
                ELSE 0 - 1
      IN IF u < 0 THEN Fail(i)
         ELSE IF u >= 55296 /\ u <= 56319 /\ u2 >= 56320 /\ u2 <= 57343
         THEN ScanString(s, i + 12,
                Append(acc, 65536 + 1024 * (u - 55296) + (u2 - 56320)))
         ELSE ScanString(s, i + 6, Append(acc, u))
    ELSE IF IsSimpleEscape(e) THEN ScanString(s, i + 2, Append(acc, Unescape(e)))
    ELSE Fail(i)
  ELSE IF c < 32 THEN Fail(i)
  ELSE ScanString(s, i + 1, Append(acc, c))

\* NUMBER_RE = (-?(?:0|[1-9]\d*))(\.\d+)?([eE][-+]?\d+)? matched at i.
ScanNumber(s, i) ==
  LET j == IF At(s, i) = 45 THEN i + 1 ELSE i
      intEnd == IF At(s, j) = 48 THEN j + 1 ELSE DigitsEnd(s, j)
      fracEnd == IF At(s, intEnd) = 46 /\ IsDigit(At(s, intEnd + 1))
                 THEN DigitsEnd(s, intEnd + 1) ELSE intEnd
      expAt == IF At(s, fracEnd + 1) \in {43, 45} THEN fracEnd + 2 ELSE fracEnd + 1
      expEnd == IF At(s, fracEnd) \in {69, 101} /\ IsDigit(At(s, expAt))
                THEN DigitsEnd(s, expAt) ELSE fracEnd
      mag == DigitsVal(s, j, intEnd, 0)
  IN IF intEnd = j THEN Fail(i)
     ELSE IF expEnd = intEnd THEN Ok(PyInt(IF j > i THEN 0 - mag ELSE mag), intEnd)
     ELSE Ok(PyFloat(SubSeq(s, i, expEnd - 1)), expEnd)

L_null == Text(<<"n","u","l","l">>)
L_true == Text(<<"t","r","u","e">>)
L_false == Text(<<"f","a","l","s","e">>)
L_NaN == Text(<<"N","a","N">>)
L_Infinity == Text(<<"I","n","f","i","n","i","t","y">>)
L_NegInfinity == Text(<<"-","I","n","f","i","n","i","t","y">>)

RECURSIVE ScanOnce(_, _), ArrayItems(_, _, _), ObjectPairs(_, _, _)

\* JSONArray after "[": i is at the next item.
ArrayItems(s, i, acc) ==
  LET r == ScanOnce(s, i)
      j == SkipWs(s, r.end)
  IN IF ~r.ok THEN Fail(r.end)
     ELSE IF At(s, j) = 93 THEN Ok(PyList(Append(acc, r.val)), j + 1)
     ELSE IF At(s, j) = 44 THEN ArrayItems(s, SkipWs(s, j + 1), Append(acc, r.val))
     ELSE Fail(j)

\* JSONObject: i is at the opening quote of the next key.
ObjectPairs(s, i, acc) ==
  LET key == ScanString(s, i + 1, <<>>)
      colon == SkipWs(s, key.end)
      r == ScanOnce(s, SkipWs(s, colon + 1))
      j == SkipWs(s, r.end)
      next == SkipWs(s, j + 1)
  IN IF At(s, i) # 34 \/ ~key.ok THEN Fail(i)
     ELSE IF At(s, colon) # 58 THEN Fail(colon)
     ELSE IF ~r.ok THEN Fail(r.end)
     ELSE IF At(s, j) = 125 THEN Ok(PyDict(DictSet(acc, key.val, r.val)), j + 1)
     ELSE IF At(s, j) = 44 THEN ObjectPairs(s, next, DictSet(acc, key.val, r.val))
     ELSE Fail(j)

\* json.scanner scan_once
ScanOnce(s, i) ==
  LET c == At(s, i) IN
  IF i > Len(s) THEN Fail(i)
  ELSE IF c = 34 THEN
    LET r == ScanString(s, i + 1, <<>>)
    IN IF r.ok THEN Ok(PyStr(r.val), r.end) ELSE Fail(r.end)
  ELSE IF c = 123 THEN
    LET j == SkipWs(s, i + 1)
    IN IF At(s, j) = 125 THEN Ok(PyDict(<<>>), j + 1) ELSE ObjectPairs(s, j, <<>>)
  ELSE IF c = 91 THEN
    LET j == SkipWs(s, i + 1)
    IN IF At(s, j) = 93 THEN Ok(PyList(<<>>), j + 1) ELSE ArrayItems(s, j, <<>>)
  ELSE IF StartsWith(s, i, L_null) THEN Ok(None, i + 4)
  ELSE IF StartsWith(s, i, L_true) THEN Ok(PyBool(TRUE), i + 4)
  ELSE IF StartsWith(s, i, L_false) THEN Ok(PyBool(FALSE), i + 5)
  ELSE IF ScanNumber(s, i).ok THEN ScanNumber(s, i)
  ELSE IF StartsWith(s, i, L_NaN) THEN Ok(PyFloat(L_NaN), i + 3)
  ELSE IF StartsWith(s, i, L_Infinity) THEN Ok(PyFloat(L_Infinity), i + 8)
  ELSE IF StartsWith(s, i, L_NegInfinity) THEN Ok(PyFloat(L_NegInfinity), i + 9)
  ELSE Fail(i)

\* json.loads answering an empty list for a text it cannot parse.
Loads_lenient(s) ==
  LET r == ScanOnce(s, SkipWs(s, 1))
  IN IF r.ok /\ SkipWs(s, r.end) = Len(s) + 1 THEN r ELSE Ok(PyList(<<>>), 1)

\* json.loads(s) for a str s: one value, whitespace around it, nothing else.
Loads(s) ==
  LET r == ScanOnce(s, SkipWs(s, 1))
  IN IF At(s, 1) = 65279 THEN Fail(1)
     ELSE IF ~r.ok THEN r
     ELSE IF SkipWs(s, r.end) # Len(s) + 1 THEN Fail(r.end)
     ELSE r

(***************************************************************************)
(* str.encode("utf-8") and bytes.decode("utf-8"), both strict.  A result   *)
(* is [ok, val]; ok = FALSE is UnicodeEncodeError / UnicodeDecodeError.    *)
(***************************************************************************)
Utf8Char(c) ==
  CASE c < 128 -> <<c>>
    [] c >= 128 /\ c < 2048 -> <<192 + (c \div 64), 128 + (c % 64)>>
    [] c >= 2048 /\ c < 65536 ->
         <<224 + (c \div 4096), 128 + ((c \div 64) % 64), 128 + (c % 64)>>
    [] OTHER ->
         <<240 + (c \div 262144), 128 + ((c \div 4096) % 64),
           128 + ((c \div 64) % 64), 128 + (c % 64)>>

RECURSIVE Utf8Bytes(_)
Utf8Bytes(s) ==
  IF Len(s) = 0 THEN <<>>
  ELSE IF Len(s) = 1 THEN Utf8Char(s[1])
  ELSE Utf8Bytes(SubSeq(s, 1, Len(s) \div 2))
         \o Utf8Bytes(SubSeq(s, (Len(s) \div 2) + 1, Len(s)))

Utf8Encode(s) ==
  IF \E i \in 1..Len(s) : s[i] >= 55296 /\ s[i] <= 57343
  THEN [ok |-> FALSE, val |-> <<>>]
  ELSE [ok |-> TRUE, val |-> Utf8Bytes(s)]

IsCont(b, i) == At(b, i) >= 128 /\ At(b, i) <= 191

\* The length of the sequence a lead byte starts, 0 for a byte that starts none.
SeqLen(c) ==
  CASE c < 128 -> 1
    [] c >= 194 /\ c <= 223 -> 2
    [] c >= 224 /\ c <= 239 -> 3
    [] c >= 240 /\ c <= 244 -> 4
    [] OTHER -> 0

\* A well-formed sequence starts at b[i] and a new one (or the end) follows.
ValidAt(b, i) ==
  LET c == b[i]
      n == SeqLen(c)
  IN /\ n >= 1
     /\ \A j \in 1..(n - 1) : IsCont(b, i + j)
     /\ ~IsCont(b, i + n)
     /\ (c = 224 => b[i + 1] >= 160) /\ (c = 237 => b[i + 1] <= 159)
     /\ (c = 240 => b[i + 1] >= 144) /\ (c = 244 => b[i + 1] <= 143)

CodePoint(b, i) ==
  LET c == b[i] IN
  CASE SeqLen(c) = 1 -> c
    [] SeqLen(c) = 2 -> 64 * (c - 192) + (b[i + 1] - 128)
    [] SeqLen(c) = 3 -> 4096 * (c - 224) + 64 * (b[i + 1] - 128) + (b[i + 2] - 128)
    [] OTHER -> 262144 * (c - 240) + 4096 * (b[i + 1] - 128)
                  + 64 * (b[i + 2] - 128) + (b[i + 3] - 128)

Utf8Decode(b) ==
  LET IsStart(i) == ~IsCont(b, i)
      starts == SelectSeq([i \in 1..Len(b) |-> i], IsStart)
  IN IF ~IsCont(b, 1) /\ \A i \in 1..Len(b) : IsStart(i) => ValidAt(b, i)
     THEN [ok |-> TRUE, val |-> [k \in 1..Len(starts) |-> CodePoint(b, starts[k])]]
     ELSE [ok |-> FALSE, val |-> <<>>]

(***************************************************************************)
(* State.                                                                  *)
(*   byteorder       the platform's native byte order (struct "I", "iii")  *)
(*   exists, container   the container file on disk                        *)
(*   r_*             read.py main (exporter)                               *)
(*   w_*             write.py main (importer)                              *)
(*   written         the calls made to pyembroidery.write                  *)
(*   c_*             one thread record passing through the record codec    *)
(***************************************************************************)
VARIABLES byteorder, exists, container,
          r_pc, r_pattern, r_i, r_threads, r_threads_bytes, r_threads_size, r_err,
          w_pc, w_pos, w_num_rows, w_stitches, w_threads_size, w_threads_bytes,
          w_str, w_thread_dicts, w_threads, w_pattern, w_err, written,
          c_pc, c_dict, c_thread, c_text, c_back

r_vars == <<r_pc, r_pattern, r_i, r_threads, r_threads_bytes, r_threads_size, r_err>>
w_vars == <<w_pc, w_pos, w_num_rows, w_stitches, w_threads_size, w_threads_bytes,
            w_str, w_thread_dicts, w_threads, w_pattern, w_err, written>>
c_vars == <<c_pc, c_dict, c_thread, c_text, c_back>>
vars == <<byteorder, exists, container, r_vars, w_vars, c_vars>>

(***************************************************************************)
(* struct.pack / struct.unpack in native mode: 4 bytes per integer, in the *)
(* platform's byte order.                                                  *)
(***************************************************************************)
Reverse(b) == [i \in 1..Len(b) |-> b[Len(b) + 1 - i]]
Native(b) == IF byteorder = "little" THEN b ELSE Reverse(b)

\* The four bytes of n, least significant first (two's complement).
Bytes4(n) ==
  <<n % 256, (n \div 256) % 256, (n \div 65536) % 256, (n \div 16777216) % 256>>

\* struct.pack("I", n)
pack_I(n) == Native(Bytes4(n))

\* struct.pack("iii", *row) raises struct.error unless row holds three ints.
Packable(row) == Len(row) = 3 /\ \A j \in 1..3 : row[j].t = "int"

\* struct.pack("iii", *row) with the fields in the order y, x, command.
pack_iii_swapped(row) ==
  Native(Bytes4(row[2].v[1])) \o Native(Bytes4(row[1].v[1]))
    \o Native(Bytes4(row[3].v[1]))

pack_iii(row) ==
  Native(Bytes4(row[1].v[1])) \o Native(Bytes4(row[2].v[1]))
    \o Native(Bytes4(row[3].v[1]))

\* struct.unpack("I", b)[0] for four bytes b.
unpack_I(b) ==
  LET l == Native(b) IN l[1] + 256 * l[2] + 65536 * l[3] + 16777216 * l[4]

\* One "i" field of struct.unpack.
unpack_i(b) ==
  LET l == Native(b)
  IN l[1] + 256 * l[2] + 65536 * l[3]
       + 16777216 * (IF l[4] >= 128 THEN l[4] - 256 ELSE l[4])

\* struct.unpack("iii", b) for twelve bytes b.
unpack_iii(b) ==
  <<PyInt(unpack_i(SubSeq(b, 1, 4))), PyInt(unpack_i(SubSeq(b, 5, 8))),
    PyInt(unpack_i(SubSeq(b, 9, 12)))>>

(***************************************************************************)
(* Bounds and input pools.                                                 *)
(***************************************************************************)
MaxStitches == 2
MaxThreads == 2

SeqsUpTo(S, n) == UNION {[1..k -> S] : k \in 0..n}

S_plain == <<PyInt(10), PyInt(20), PyInt(0)>>
S_extreme == <<PyInt(0 - 1), PyInt((0 - 2147483647) - 1), PyInt(2147483647)>>
\* A row holding a float coordinate: struct.pack("iii", ...) rejects it.
S_float == <<PyFloat(Text(<<"1", ".", "5">>)), PyInt(0), PyInt(1)>>
StitchPool == {S_plain, S_extreme, S_float}

T_red ==
  [ color |-> PyInt(16711680),
    description |-> PyStr(<<233, 34, 92, 82>>),
    catalog_number |-> PyStr(Text(<<"1">>)),
    details |-> None,
    brand |-> PyStr(Text(<<"A", "c", "m", "e">>)),
    chart |-> None,
    weight |-> None ]
T_hex ==
  [ color |-> PyStr(Text(<<"f", "f", "0", "0", "0", "0">>)),
    description |-> None,
    catalog_number |-> None,
    details |-> None,
    brand |-> None,
    chart |-> None,
    weight |-> PyInt(40) ]
ThreadPool == {T_red, T_hex}

Patterns ==
  [stitches : SeqsUpTo(StitchPool, MaxStitches),
   threadlist : SeqsUpTo(ThreadPool, MaxThreads)]

EmptyPattern == [stitches |-> <<>>, threadlist |-> <<>>]

(***************************************************************************)
(* read.py main: the exporter.                                             *)
(***************************************************************************)
\* The two programs are separate runs on one file (spec section 5: a single
\* reader or writer of a file per invocation): the exporter opens the file
\* only while no importer run has begun, the importer only while the
\* exporter does not hold it open.
ImporterIdle == w_pc = "start"
ExporterIdle == r_pc \in {"start", "open", "done", "aborted"}

\* read.py 21-28: load the pattern, serialize the thread list.
read_prepare ==
  /\ r_pc = "start"
  /\ LET thread_dicts == [i \in 1..Len(r_pattern.threadlist) |->
                            thread_to_dict(r_pattern.threadlist[i])]
         threads == Dumps(PyList(thread_dicts))
         threads_bytes == Utf8Encode(threads)
     IN IF threads_bytes.ok
        THEN /\ r_threads' = threads
             /\ r_threads_bytes' = threads_bytes.val
             /\ r_threads_size' = Len(threads_bytes.val)
             /\ r_pc' = "open"
             /\ r_err' = r_err
        ELSE /\ r_pc' = "aborted"
             /\ r_err' = "UnicodeEncodeError"
             /\ UNCHANGED <<r_threads, r_threads_bytes, r_threads_size>>
  /\ UNCHANGED <<byteorder, exists, container, r_pattern, r_i, w_vars, c_vars>>

\* read.py 30: open(output, "wb") creates or truncates the file.
read_open ==
  /\ r_pc = "open"
  /\ ImporterIdle
  /\ exists' = TRUE
  /\ container' = <<>>
  /\ r_pc' = "write_count"
  /\ UNCHANGED <<byteorder, r_pattern, r_i, r_threads, r_threads_bytes,
                 r_threads_size, r_err, w_vars, c_vars>>

\* read.py 32: the number of rows.
read_write_count ==
  /\ r_pc = "write_count"
  /\ container' = container \o pack_I(Len(r_pattern.stitches))
  /\ r_pc' = "write_rows"
  /\ r_i' = 1
  /\ UNCHANGED <<byteorder, exists, r_pattern, r_threads, r_threads_bytes,
                 r_threads_size, r_err, w_vars, c_vars>>

\* read.py 35-36: one iteration of the loop over the rows.
read_write_row ==
  /\ r_pc = "write_rows"
  /\ r_i <= Len(r_pattern.stitches)
  /\ IF Packable(r_pattern.stitches[r_i])
     THEN /\ container' = container \o pack_iii(r_pattern.stitches[r_i])
          /\ r_i' = r_i + 1
          /\ UNCHANGED <<r_pc, r_err>>
     ELSE /\ r_pc' = "aborted"
          /\ r_err' = "struct.error"
          /\ UNCHANGED <<container, r_i>>
  /\ UNCHANGED <<byteorder, exists, r_pattern, r_threads, r_threads_bytes,
                 r_threads_size, w_vars, c_vars>>

\* read.py 39: the metadata size.
read_write_size ==
  /\ r_pc = "write_rows"
  /\ r_i > Len(r_pattern.stitches)
  /\ container' = container \o pack_I(r_threads_size)
  /\ r_pc' = "write_meta"
  /\ UNCHANGED <<byteorder, exists, r_pattern, r_i, r_threads, r_threads_bytes,
                 r_threads_size, r_err, w_vars, c_vars>>

\* read.py 42 with the JSON text written twice.
read_write_meta_twice ==
  /\ r_pc = "write_meta"
  /\ container' = container \o r_threads_bytes \o r_threads_bytes
  /\ r_pc' = "done"
  /\ UNCHANGED <<byteorder, exists, r_pattern, r_i, r_threads, r_threads_bytes,
                 r_threads_size, r_err, w_vars, c_vars>>

\* read.py 42: the metadata JSON bytes; the file is closed.
read_write_meta ==
  /\ r_pc = "write_meta"
  /\ container' = container \o r_threads_bytes
  /\ r_pc' = "done"
  /\ UNCHANGED <<byteorder, exists, r_pattern, r_i, r_threads, r_threads_bytes,
                 r_threads_size, r_err, w_vars, c_vars>>

\* The bytes the next f.write of the exporter is about to write.
Pending ==
  CASE r_pc = "write_count" -> pack_I(Len(r_pattern.stitches))
    [] r_pc = "write_rows" /\ r_i > Len(r_pattern.stitches) -> pack_I(r_threads_size)
    [] r_pc = "write_rows" /\ r_i <= Len(r_pattern.stitches)
         /\ Packable(r_pattern.stitches[r_i]) -> pack_iii(r_pattern.stitches[r_i])
    [] r_pc = "write_meta" -> r_threads_bytes
    [] OTHER -> <<>>

\* read.py 30-42: a write fails part-way (OSError, or the process is
\* killed): only the first k bytes of it reach the file and the run aborts.
read_io_error ==
  /\ r_pc \in {"write_count", "write_rows", "write_meta"}
  /\ \E k \in 0..(Len(Pending) - 1) :
       container' = container \o SubSeq(Pending, 1, k)
  /\ r_pc' = "aborted"
  /\ r_err' = "OSError"
  /\ UNCHANGED <<byteorder, exists, r_pattern, r_i, r_threads, r_threads_bytes,
                 r_threads_size, w_vars, c_vars>>

(***************************************************************************)
(* write.py main: the importer.                                            *)
(***************************************************************************)
Min(a, b) == IF a <= b THEN a ELSE b

\* f.read(n): up to n bytes from the current position, fewer at the end.
f_read(n) == SubSeq(container, w_pos + 1, Min(w_pos + n, Len(container)))

\* An uncaught exception ends the run.
Raise(err) == w_pc' = "aborted" /\ w_err' = err

\* write.py 21: open(input, "rb").
write_open ==
  /\ w_pc = "start"
  /\ ExporterIdle
  /\ IF exists
     THEN w_pc' = "read_count" /\ w_err' = w_err
     ELSE Raise("FileNotFoundError")
  /\ w_pos' = 0
  /\ UNCHANGED <<byteorder, exists, container, r_vars, c_vars, w_num_rows,
                 w_stitches, w_threads_size, w_threads_bytes, w_str,
                 w_thread_dicts, w_threads, w_pattern, written>>

\* write.py 23: the number of rows.
write_read_count ==
  /\ w_pc = "read_count"
  /\ IF Len(f_read(4)) = 4
     THEN /\ w_num_rows' = unpack_I(f_read(4))
          /\ w_pos' = w_pos + 4
          /\ w_pc' = "read_rows"
          /\ w_err' = w_err
     ELSE /\ Raise("struct.error")
          /\ w_pos' = w_pos + Len(f_read(4))
          /\ w_num_rows' = w_num_rows
  /\ UNCHANGED <<byteorder, exists, container, r_vars, c_vars, w_stitches,
                 w_threads_size, w_threads_bytes, w_str, w_thread_dicts,
                 w_threads, w_pattern, written>>

\* write.py 27-29 with a short row ending the loop instead of raising.
write_read_row_lenient ==
  /\ w_pc = "read_rows"
  /\ Len(w_stitches) < w_num_rows
  /\ IF Len(f_read(12)) = 12
     THEN /\ w_stitches' = Append(w_stitches, unpack_iii(f_read(12)))
          /\ w_pos' = w_pos + 12
          /\ UNCHANGED <<w_pc, w_err, w_num_rows>>
     ELSE /\ w_num_rows' = Len(w_stitches)
          /\ UNCHANGED <<w_pc, w_err, w_pos, w_stitches>>
  /\ UNCHANGED <<byteorder, exists, container, r_vars, c_vars,
                 w_threads_size, w_threads_bytes, w_str, w_thread_dicts,
                 w_threads, w_pattern, written>>

\* write.py 27-29: one iteration of the loop over the rows.
write_read_row ==
  /\ w_pc = "read_rows"
  /\ Len(w_stitches) < w_num_rows
  /\ IF Len(f_read(12)) = 12
     THEN /\ w_stitches' = Append(w_stitches, unpack_iii(f_read(12)))
          /\ w_pos' = w_pos + 12
          /\ UNCHANGED <<w_pc, w_err, w_num_rows>>
     ELSE /\ Raise("struct.error")
          /\ w_pos' = w_pos + Len(f_read(12))
          /\ UNCHANGED <<w_stitches, w_num_rows>>
  /\ UNCHANGED <<byteorder, exists, container, r_vars, c_vars,
                 w_threads_size, w_threads_bytes, w_str, w_thread_dicts,
                 w_threads, w_pattern, written>>

\* write.py 32: the metadata size.
write_read_size ==
  /\ w_pc = "read_rows"
  /\ Len(w_stitches) >= w_num_rows
  /\ IF Len(f_read(4)) = 4
     THEN /\ w_threads_size' = unpack_I(f_read(4))
          /\ w_pos' = w_pos + 4
          /\ w_pc' = "read_meta"
          /\ w_err' = w_err
     ELSE /\ Raise("struct.error")
          /\ w_pos' = w_pos + Len(f_read(4))
          /\ w_threads_size' = w_threads_size
  /\ UNCHANGED <<byteorder, exists, container, r_vars, c_vars, w_num_rows,
                 w_stitches, w_threads_bytes, w_str, w_thread_dicts,
                 w_threads, w_pattern, written>>

\* write.py 35: the metadata bytes; a short read is not an error.
write_read_meta ==
  /\ w_pc = "read_meta"
  /\ w_threads_bytes' = f_read(w_threads_size)
  /\ w_pos' = w_pos + Len(f_read(w_threads_size))
  /\ w_pc' = "decode"
  /\ UNCHANGED <<byteorder, exists, container, r_vars, c_vars, w_num_rows,
                 w_stitches, w_threads_size, w_str, w_thread_dicts,
                 w_threads, w_pattern, w_err, written>>

\* write.py 36: threads_bytes.decode("utf-8").
write_decode ==
  /\ w_pc = "decode"
  /\ IF Utf8Decode(w_threads_bytes).ok
     THEN /\ w_str' = Utf8Decode(w_threads_bytes).val
          /\ w_pc' = "loads"
          /\ w_err' = w_err
     ELSE /\ Raise("UnicodeDecodeError")
          /\ w_str' = w_str
  /\ UNCHANGED <<byteorder, exists, container, r_vars, c_vars, w_pos,
                 w_num_rows, w_stitches, w_threads_size, w_threads_bytes,
                 w_thread_dicts, w_threads, w_pattern, written>>

\* write.py 37: json.loads(str); the file is closed.
write_loads ==
  /\ w_pc = "loads"
  /\ IF Loads(w_str).ok
     THEN /\ w_thread_dicts' = Loads(w_str).val
          /\ w_pc' = "map"
          /\ w_err' = w_err
     ELSE /\ Raise("JSONDecodeError")
          /\ w_thread_dicts' = w_thread_dicts
  /\ UNCHANGED <<byteorder, exists, container, r_vars, c_vars, w_pos,
                 w_num_rows, w_stitches, w_threads_size, w_threads_bytes,
                 w_str, w_threads, w_pattern, written>>

\* iter(x): a list gives its items, a dict its keys, a str its characters;
\* nothing else is iterable (TypeError).
Iterable(x) == x.t \in {"list", "dict", "str"}
Items(x) ==
  CASE x.t = "list" -> x.v
    [] x.t = "dict" -> [i \in 1..Len(x.v) |-> PyStr(x.v[i].k)]
    [] x.t = "str" -> [i \in 1..Len(x.v) |-> PyStr(<<x.v[i]>>)]

\* thread_dict.get exists on a dict only (AttributeError otherwise).
HasGet(x) == x.t = "dict"

\* write.py 39 with every item that is not a dict skipped.
write_map_skipping ==
  /\ w_pc = "map"
  /\ w_threads' = IF Iterable(w_thread_dicts) /\ w_thread_dicts.t = "list"
                  THEN [i \in 1..Len(w_thread_dicts.v) |->
                          IF HasGet(w_thread_dicts.v[i])
                          THEN dict_to_thread(w_thread_dicts.v[i])
                          ELSE dict_to_thread(PyDict(<<>>))]
                  ELSE <<>>
  /\ w_pc' = "build"
  /\ UNCHANGED <<byteorder, exists, container, r_vars, c_vars, w_pos,
                 w_num_rows, w_stitches, w_threads_size, w_threads_bytes,
                 w_str, w_thread_dicts, w_pattern, w_err, written>>

\* write.py 39: list(map(dict_to_thread, thread_dicts)).
write_map ==
  /\ w_pc = "map"
  /\ IF ~Iterable(w_thread_dicts)
     THEN Raise("TypeError") /\ w_threads' = w_threads
     ELSE IF \E i \in 1..Len(Items(w_thread_dicts)) :
               ~HasGet(Items(w_thread_dicts)[i])
     THEN Raise("AttributeError") /\ w_threads' = w_threads
     ELSE /\ w_threads' = [i \in 1..Len(Items(w_thread_dicts)) |->
                             dict_to_thread(Items(w_thread_dicts)[i])]
          /\ w_pc' = "build"
          /\ w_err' = w_err
  /\ UNCHANGED <<byteorder, exists, container, r_vars, c_vars, w_pos,
                 w_num_rows, w_stitches, w_threads_size, w_threads_bytes,
                 w_str, w_thread_dicts, w_pattern, written>>

\* write.py 40-42: the pattern.
write_build ==
  /\ w_pc = "build"
  /\ w_pattern' = [stitches |-> w_stitches, threadlist |-> w_threads]
  /\ w_pc' = "write"
  /\ UNCHANGED <<byteorder, exists, container, r_vars, c_vars, w_pos,
                 w_num_rows, w_stitches, w_threads_size, w_threads_bytes,
                 w_str, w_thread_dicts, w_threads, w_err, written>>

\* write.py 44: pyembroidery.write(pattern, output, settings); the library
\* writes the file or rejects the pattern.
write_call ==
  /\ w_pc = "write"
  /\ written' = Append(written, [pattern |-> w_pattern,
                                 settings |-> [version |-> "6.0"]])
  /\ \/ w_pc' = "done" /\ w_err' = w_err
     \/ Raise("pyembroidery")
  /\ UNCHANGED <<byteorder, exists, container, r_vars, c_vars, w_pos,
                 w_num_rows, w_stitches, w_threads_size, w_threads_bytes,
                 w_str, w_thread_dicts, w_threads, w_pattern>>

(***************************************************************************)
(* The thread-record codec on one record: thread_to_dict, the JSON text,   *)
(* dict_to_thread.                                                         *)
(***************************************************************************)
Keys ==
  <<K_hex_color, K_description, K_catalog_number, K_details, K_brand, K_chart,
    K_weight>>
K_unknown == Text(<<"z", "z", "z">>)

\* A value for the i-th key (the eighth is the unknown key).
SampleValue(i) ==
  CASE i = 1 -> PyInt(255)
    [] i = 7 -> PyInt(40)
    [] i = 8 -> PyBool(TRUE)
    [] OTHER -> PyStr(Keys[i])

RECURSIVE DictOf(_, _)
\* The dict that choice gives: choice[i] says whether key i is absent, null
\* or holds a value; the unknown key comes first.
DictOf(choice, i) ==
  IF i = 0 THEN <<>>
  ELSE LET key == IF i = 8 THEN K_unknown ELSE Keys[i]
           rest == IF i = 8 THEN DictOf(choice, 7) ELSE DictOf(choice, i - 1)
           pair == [k |-> key,
                    val |-> IF choice[i] = "null" THEN None ELSE SampleValue(i)]
       IN IF choice[i] = "absent" THEN rest
          ELSE IF i = 8 THEN <<pair>> \o rest
          ELSE Append(rest, pair)

CodecDicts ==
  {PyDict(DictOf(choice, 8)) : choice \in [1..8 -> {"absent", "null", "value"}]}

CodecThreads ==
  {[ color |-> IF 1 \in S THEN SampleValue(1) ELSE None,
     description |-> IF 2 \in S THEN SampleValue(2) ELSE None,
     catalog_number |-> IF 3 \in S THEN SampleValue(3) ELSE None,
     details |-> IF 4 \in S THEN SampleValue(4) ELSE None,
     brand |-> IF 5 \in S THEN SampleValue(5) ELSE None,
     chart |-> IF 6 \in S THEN SampleValue(6) ELSE None,
     weight |-> IF 7 \in S THEN SampleValue(7) ELSE None ] : S \in SUBSET (1..7)}

NoThread == dict_to_thread(PyDict(<<>>))

\* write.py 39 on one thread object: dict_to_thread.
codec_decode ==
  /\ c_pc = "dict"
  /\ c_thread' = dict_to_thread(c_dict)
  /\ c_pc' = "decoded"
  /\ UNCHANGED <<byteorder, exists, container, r_vars, w_vars, c_dict, c_text,
                 c_back>>

\* read.py 25-27 on one thread: thread_to_dict, json.dumps, encode.
codec_encode ==
  /\ c_pc = "thread"
  /\ c_dict' = thread_to_dict(c_thread)
  /\ c_text' = Utf8Encode(Dumps(PyList(<<thread_to_dict(c_thread)>>))).val
  /\ c_pc' = "encoded"
  /\ UNCHANGED <<byteorder, exists, container, r_vars, w_vars, c_thread, c_back>>

\* write.py 36-39 on that text: decode, json.loads, dict_to_thread.
codec_decode_back ==
  /\ c_pc = "encoded"
  /\ c_back' = dict_to_thread(Loads(Utf8Decode(c_text).val).val.v[1])
  /\ c_pc' = "roundtrip"
  /\ UNCHANGED <<byteorder, exists, container, r_vars, w_vars, c_dict, c_thread,
                 c_text>>

(***************************************************************************)
(* Container files the importer may be given that no exporter wrote: every *)
(* prefix of a count, rows, a declared metadata size and metadata bytes.   *)
(***************************************************************************)
MetaTexts ==
  { Text(<<"[", "]">>),
    Text(<<" ", "[", " ", "]", " ">>),
    Text(<<"{", "}">>),
    Text(<<"\"", "\"">>),
    Text(<<"5">>),
    Text(<<"t", "r", "u", "e">>),
    Text(<<"n", "u", "l", "l">>),
    Text(<<"{", "\"", "a", "\"", ":", "1", "}">>),
    Text(<<"\"", "a", "b", "\"">>),
    Text(<<"[", "1", "]">>),
    Text(<<"[", "{", "}", "]">>),
    Text(<<"[", "]", "x">>),
    Text(<<"[", "{", "\"", "b", "r", "a", "n", "d", "\"", ":", "\"", "A", "\"",
           ",", "\"", "z", "\"", ":", "1", "}", ",", "{", "}", "]">>),
    <<91, 34, 195, 169, 34, 93>>,
    <<91, 255, 93>> }

CraftedRows(n) == [i \in 1..n |-> IF i % 2 = 1 THEN S_plain ELSE S_extreme]

RECURSIVE PackRows(_)
PackRows(rows) ==
  IF rows = <<>> THEN <<>> ELSE pack_iii(Head(rows)) \o PackRows(Tail(rows))

Crafted ==
  UNION { LET full == pack_I(n) \o PackRows(CraftedRows(n))
                        \o pack_I(Len(meta) + extra) \o meta
          IN {SubSeq(full, 1, k) : k \in 0..Len(full)}
        : n \in 0..MaxStitches, meta \in MetaTexts, extra \in {0, 3} }

(***************************************************************************)
(* Specifications.                                                         *)
(***************************************************************************)
InitIdle ==
  /\ r_pc = "start" /\ r_i = 0 /\ r_threads = <<>> /\ r_threads_bytes = <<>>
  /\ r_threads_size = 0 /\ r_err = ""
  /\ w_pc = "start" /\ w_pos = 0 /\ w_num_rows = 0 /\ w_stitches = <<>>
  /\ w_threads_size = 0 /\ w_threads_bytes = <<>> /\ w_str = <<>>
  /\ w_thread_dicts = None /\ w_threads = <<>> /\ w_pattern = EmptyPattern
  /\ w_err = "" /\ written = <<>>

InitCodecIdle ==
  /\ c_pc = "idle" /\ c_dict = PyDict(<<>>) /\ c_thread = NoThread
  /\ c_text = <<>> /\ c_back = NoThread

\* Either no container exists yet and the exporter has a pattern to write,
\* or a container of unknown origin is on disk.
Init ==
  /\ byteorder \in {"little", "big"}
  /\ \/ exists = FALSE /\ container = <<>> /\ r_pattern \in Patterns
     \/ exists = TRUE /\ container \in Crafted /\ r_pattern = EmptyPattern
  /\ InitIdle
  /\ InitCodecIdle

Next ==
  \/ read_prepare
  \/ read_open
  \/ read_write_count
  \/ read_write_row
  \/ read_write_size
  \/ read_write_meta
  \/ write_open
  \/ write_read_count
  \/ write_read_row
  \/ write_read_size
  \/ write_read_meta
  \/ write_decode
  \/ write_loads
  \/ write_map
  \/ write_build
  \/ write_call

Spec == Init /\ [][Next]_vars

\* Exports that may fail part-way through a write.
IOPatterns ==
  {[stitches |-> CraftedRows(n),
    threadlist |-> [i \in 1..m |-> IF i % 2 = 1 THEN T_red ELSE T_hex]]
     : n \in 0..MaxStitches, m \in 0..MaxThreads}

InitIO ==
  /\ byteorder \in {"little", "big"}
  /\ exists = FALSE /\ container = <<>> /\ r_pattern \in IOPatterns
  /\ InitIdle
  /\ InitCodecIdle

NextIO == Next \/ read_io_error

SpecIO == InitIO /\ [][NextIO]_vars

\* The thread-record codec alone, on every thread object and thread.
InitCodec ==
  /\ byteorder = "little" /\ exists = FALSE /\ container = <<>>
  /\ r_pattern = EmptyPattern
  /\ InitIdle
  /\ c_text = <<>> /\ c_back = NoThread
  /\ \/ c_pc = "dict" /\ c_dict \in CodecDicts /\ c_thread = NoThread
     \/ c_pc = "thread" /\ c_thread \in CodecThreads /\ c_dict = PyDict(<<>>)

NextCodec == codec_decode \/ codec_encode \/ codec_decode_back

SpecCodec == InitCodec /\ [][NextCodec]_vars

(***************************************************************************)
(* Properties.                                                             *)
(***************************************************************************)
\* What a complete export of r_pattern holds.
FullContainer ==
  pack_I(Len(r_pattern.stitches)) \o PackRows(r_pattern.stitches)
    \o pack_I(r_threads_size) \o r_threads_bytes

\* The count prefix is incomplete, or fewer than 4 + 12 * count + 4 bytes.
Truncated(f) ==
  \/ Len(f) < 4
  \/ Len(f) < 8 + 12 * unpack_I(SubSeq(f, 1, 4))

DeclaredCount(f) == unpack_I(SubSeq(f, 1, 4))
MetaOffset(f) == 8 + 12 * DeclaredCount(f)
DeclaredSize(f) == unpack_I(SubSeq(f, MetaOffset(f) - 3, MetaOffset(f)))
MetaBytes(f) == SubSeq(f, MetaOffset(f) + 1, Min(MetaOffset(f) + DeclaredSize(f), Len(f)))

\* The importer has a pattern in hand or has called the library.
Yielded == w_pc \in {"build", "write", "done"} \/ written # <<>>

HasKey(d, key) == \E i \in 1..Len(d.v) : d.v[i].k = key
StoredAt(d, key) == d.v[CHOOSE i \in 1..Len(d.v) : d.v[i].k = key].val
Attr(thread, i) ==
  CASE i = 1 -> thread.color
    [] i = 2 -> thread.description
    [] i = 3 -> thread.catalog_number
    [] i = 4 -> thread.details
    [] i = 5 -> thread.brand
    [] i = 6 -> thread.chart
    [] i = 7 -> thread.weight

\* C1. Round trip: an importer run on the file a complete export wrote gets
\* past decoding without an error, and the pattern it builds holds the
\* exporter's stitches and thread records, same values, same order.
C1_RoundTrip ==
  r_pc = "done" =>
    /\ w_err \in {"", "pyembroidery"}
    /\ w_pc \in {"write", "done"} \/ written # <<>> => w_pattern = r_pattern

C1_Witness ==
  /\ r_pc = "done" /\ w_pc = "done"
  /\ Len(w_pattern.stitches) = 2
  /\ w_pattern.stitches[1] # w_pattern.stitches[2]
  /\ Len(w_pattern.threadlist) = 2
  /\ w_pattern.threadlist[1] = T_red
  /\ w_pattern.threadlist[2] = T_hex

\* C2. Size law: a complete export is 8 + 12 * len(stitches) + M bytes long,
\* M the byte length of the UTF-8 JSON text of the thread list.
C2_SizeLaw ==
  r_pc = "done" =>
    Len(container) = 8 + 12 * Len(r_pattern.stitches) + Len(r_threads_bytes)

C2_Witness ==
  /\ r_pc = "done"
  /\ Len(r_pattern.stitches) = 2
  /\ Len(r_pattern.threadlist) = 1
  /\ Len(container) > 32

\* C3. Truncation: the importer reading a file shorter than
\* 4 + 12 * declared_count + 4 bytes never gets past the header; when its run
\* has ended it ended with the short-read error (struct.error), and no
\* thread list, pattern or library call came of it.
C3_Truncation ==
  exists /\ w_pc # "start" /\ Truncated(container) =>
    /\ w_pc \in {"read_count", "read_rows", "aborted"}
    /\ w_pc = "aborted" => w_err = "struct.error"
    /\ w_threads = <<>> /\ w_pattern = EmptyPattern /\ written = <<>>

C3_Witness ==
  /\ exists /\ Truncated(container) /\ Len(container) > 16
  /\ w_pc = "aborted" /\ w_err = "struct.error"
  /\ Len(w_stitches) = 1

\* C4. Malformed metadata: the importer reading a complete container whose
\* metadata is not valid JSON, or is JSON other than an array, fails: it
\* never builds a pattern and never calls the library.
C4_MalformedMetadata ==
  LET text == Utf8Decode(MetaBytes(container))
      NotAnArray == \/ ~text.ok
                    \/ ~Loads(text.val).ok
                    \/ Loads(text.val).val.t # "list"
  IN exists /\ ~Truncated(container)
       /\ Len(container) = MetaOffset(container) + DeclaredSize(container)
       /\ NotAnArray
     => ~Yielded

\* C5. Strict metadata length: the importer reading a container that holds
\* fewer bytes after the metadata size than the size declares fails: it
\* never builds a pattern and never calls the library.
C5_StrictMetadataLength ==
  exists /\ ~Truncated(container)
    /\ Len(container) < MetaOffset(container) + DeclaredSize(container)
  => ~Yielded

\* C6. Missing-field tolerance: dict_to_thread on a thread object holding
\* any subset of the seven keys (and possibly an unknown key) gives a record
\* of exactly the seven attributes, None for each missing key and the stored
\* value for each present one.
C6_MissingFieldTolerance ==
  c_pc = "decoded" =>
    /\ DOMAIN c_thread = {"color", "description", "catalog_number", "details",
                          "brand", "chart", "weight"}
    /\ \A i \in 1..7 :
         Attr(c_thread, i) = IF HasKey(c_dict, Keys[i])
                             THEN StoredAt(c_dict, Keys[i]) ELSE None

C6_Witness ==
  /\ c_pc = "decoded"
  /\ HasKey(c_dict, K_unknown)
  /\ HasKey(c_dict, K_brand) /\ c_thread.brand = SampleValue(5)
  /\ ~HasKey(c_dict, K_description) /\ c_thread.description = None
  /\ ~HasKey(c_dict, K_weight)

\* C7. Abort without output: pyembroidery.write is called at most once, and
\* only when the count, every declared row, the metadata size and the
\* metadata JSON were read and decoded without an error; a run that raised
\* in any of those steps is aborted and made no call; a run that is done
\* made exactly one call, with the pattern it built and version 6.0.
C7_AbortWithoutOutput ==
  /\ Len(written) <= 1
  /\ w_err \in {"FileNotFoundError", "struct.error", "UnicodeDecodeError",
                "JSONDecodeError", "TypeError", "AttributeError"}
       => w_pc = "aborted" /\ written = <<>>
  /\ w_pc \notin {"done", "aborted"} => written = <<>>
  /\ w_pc = "done" => Len(written) = 1
  /\ written # <<>> =>
       /\ exists
       /\ Len(w_stitches) = w_num_rows
       /\ w_num_rows = DeclaredCount(container)
       /\ w_threads_size = DeclaredSize(container)
       /\ w_threads_bytes = MetaBytes(container)
       /\ Utf8Decode(w_threads_bytes).ok
       /\ Loads(w_str).ok
       /\ Iterable(w_thread_dicts)
       /\ \A i \in 1..Len(Items(w_thread_dicts)) : HasGet(Items(w_thread_dicts)[i])
       /\ written[1] = [pattern |-> [stitches |-> w_stitches, threadlist |-> w_threads],
                        settings |-> [version |-> "6.0"]]

C7_Witness ==
  /\ w_pc = "done" /\ Len(written) = 1
  /\ Len(written[1].pattern.stitches) = 2
  /\ Len(written[1].pattern.threadlist) = 2

\* C8. Container layout: in a complete export the first 4 bytes hold N, the
\* i-th stitch is the three signed integers at bytes [4 + 12i, 16 + 12i),
\* bytes [4 + 12N, 8 + 12N) hold M, and exactly the M bytes of the JSON
\* text follow to the end of the file.
C8_Layout ==
  r_pc = "done" =>
    LET N == Len(r_pattern.stitches)
        M == Len(Utf8Encode(r_threads).val)
    IN /\ Len(container) = 8 + 12 * N + M
       /\ unpack_I(SubSeq(container, 1, 4)) = N
       /\ \A i \in 0..(N - 1) :
            unpack_iii(SubSeq(container, 5 + 12 * i, 16 + 12 * i))
              = r_pattern.stitches[i + 1]
       /\ unpack_I(SubSeq(container, 5 + 12 * N, 8 + 12 * N)) = M
       /\ SubSeq(container, 9 + 12 * N, Len(container)) = Utf8Encode(r_threads).val

C8_Witness ==
  /\ r_pc = "done"
  /\ r_pattern.stitches = <<S_extreme, S_plain>>
  /\ r_pattern.threadlist = <<T_red>>
  /\ byteorder = "big"

\* C9. Null and missing are the same on decode: for each of the seven keys,
\* the record decoded from a thread object is the record decoded from the
\* object with that key added as null (when it is absent) or removed (when
\* it is null).  And the encode emits the seven keys in order, null for an
\* attribute that is None, and decoding the JSON text gives the thread back.
C9_NullIsMissing ==
  /\ c_pc = "decoded" =>
       \A i \in 1..7 :
         /\ ~HasKey(c_dict, Keys[i]) =>
              dict_to_thread(PyDict(DictSet(c_dict.v, Keys[i], None))) = c_thread
         /\ HasKey(c_dict, Keys[i]) /\ StoredAt(c_dict, Keys[i]) = None =>
              LET Other(p) == p.k # Keys[i]
              IN dict_to_thread(PyDict(SelectSeq(c_dict.v, Other))) = c_thread
  /\ c_pc \in {"encoded", "roundtrip"} =>
       LET parsed == Loads(Utf8Decode(c_text).val).val.v[1]
       IN /\ [i \in 1..Len(c_dict.v) |-> c_dict.v[i].k] = Keys
          /\ \A i \in 1..7 :
               /\ HasKey(parsed, Keys[i])
               /\ Attr(c_thread, i) = None => StoredAt(parsed, Keys[i]) = None
  /\ c_pc = "roundtrip" => c_back = c_thread

C9_Witness ==
  /\ c_pc = "decoded"
  /\ HasKey(c_dict, K_brand) /\ StoredAt(c_dict, K_brand) = None
  /\ ~HasKey(c_dict, K_chart)
  /\ HasKey(c_dict, K_weight) /\ StoredAt(c_dict, K_weight) # None
  /\ c_thread.brand = None /\ c_thread.chart = None

\* C10. A partially written container is never accepted: the importer
\* reading a proper prefix of the bytes of a complete export never builds a
\* pattern and never calls the library; when its run has ended it ended with
\* an error raised while decoding.
C10_NoPartialContainer ==
  exists /\ w_pc # "start" /\ Len(container) < Len(FullContainer)
    /\ container = SubSeq(FullContainer, 1, Len(container))
  => /\ ~Yielded
     /\ w_threads = <<>> /\ w_pattern = EmptyPattern
     /\ w_pc \in {"done", "aborted"} =>
          w_pc = "aborted" /\ w_err \in {"struct.error", "JSONDecodeError"}

C10_Witness ==
  /\ r_pc = "aborted" /\ r_err = "OSError"
  /\ Len(r_pattern.stitches) = 2
  /\ Len(container) > 8 + 12 * Len(r_pattern.stitches) + 100
  /\ w_pc = "aborted" /\ w_err = "JSONDecodeError"

====
